---- MODULE Spec2Model ----
(***************************************************************************)
(* GenericModelSelect (second, exported variant) of                        *)
(* react/locallibrary_frontend/src/components/FormSelection/               *)
(* GenericModelSelect.jsx, rendered below <React.StrictMode> by main.jsx.  *)
(*                                                                         *)
(* One component slot is modelled.  A mount creates a fresh instance       *)
(* (useState initial values); the mount effect issues one axios GET; the   *)
(* effect cleanup sets ignore_request_output and aborts the controller.    *)
(* A request is settled by the network (or by the abort) and its promise   *)
(* reaction (.then / .catch) runs afterwards as a microtask, i.e. before   *)
(* any later network event is processed.                                   *)
(*                                                                         *)
(* JS strings that are only concatenated are TLA+ strings; the option      *)
(* values read by handleSelectChange are sequences of one-character        *)
(* strings so that the unary + conversion is computed digit by digit.      *)
(***************************************************************************)
EXTENDS Integers, Sequences, FiniteSets, TLC

VARIABLES
  modelName,          \* prop modelName
  canSelectMultiple,  \* prop canSelectMultiple
  strictMode,         \* TRUE: development build, StrictMode re-runs effects
  phase,              \* "unmounted" | "rendered" (effect pending) | "active"
  inst,               \* number of the current component instance
  models,             \* useState: models
  isLoading,          \* useState: isLoading
  error,              \* useState: error
  requests,           \* every GET issued so far, in issue order
  effectRuns,         \* how many times the body of the mount effect ran
  parent,             \* what the parent onChange callback received in this mount
  lastOp              \* the operation that produced the current state

vars == <<modelName, canSelectMultiple, strictMode, phase, inst, models,
          isLoading, error, requests, effectRuns, parent, lastOp>>

-----------------------------------------------------------------------------
(* Bounds *)

MaxMounts == 2      \* fresh mounts of the component in one behaviour
MaxLen == 2         \* records in the results array of a response
MaxChanges == 1     \* change events dispatched on the select

-----------------------------------------------------------------------------
(* Values *)

ModelNames == {"book", "bookinstance", "author", "genre", "language", "publisher"}

\* the value of the error state: null, false, a string or an Error object
ErrNull == [tag |-> "null", name |-> "", message |-> ""]
ErrFalse == [tag |-> "false", name |-> "", message |-> ""]
ErrString(s) == [tag |-> "string", name |-> "", message |-> s]
ErrObject(n, m) == [tag |-> "Error", name |-> n, message |-> m]

NetworkError == ErrObject("AxiosError", "Network Error")
TimeoutError == ErrObject("AxiosError", "timeout of 5000ms exceeded")
CanceledError == ErrObject("CanceledError", "canceled")
TypeError == ErrObject("TypeError", "Cannot read properties of undefined")

\* JS truthiness of the error state
Truthy(e) == e.tag \notin {"null", "false"} /\ ~(e.tag = "string" /\ e.message = "")

\* `${error}`
ErrorText(e) ==
  CASE e.tag = "null" -> "null"
    [] e.tag = "false" -> "false"
    [] e.tag = "string" -> e.message
    [] OTHER -> e.name \o ": " \o e.message

\* the value of the models state: an array, or undefined
ArrayOf(s) == [tag |-> "array", items |-> s]
Undefined == [tag |-> "undefined", items |-> <<>>]

\* records the API returns
AuthorRecords ==
  { [id |-> 1, first_name |-> "Jane", last_name |-> "Austen"],
    [id |-> 2, first_name |-> "Mary", last_name |-> "Shelley"] }
NamedRecords ==
  { [id |-> 1, name |-> "Fantasy"], [id |-> 2, name |-> "French"] }

RecordsOf(kind) == IF kind = "author" THEN AuthorRecords ELSE NamedRecords

SeqsUpTo(S, n) == UNION { [1..k -> S] : k \in 0..n }

\* response.data: null, an object without results, or {results: [...]}
NullBody == [tag |-> "null", hasResults |-> FALSE, results |-> <<>>]
NoResultsBody == [tag |-> "object", hasResults |-> FALSE, results |-> <<>>]
ResultsBody(s) == [tag |-> "object", hasResults |-> TRUE, results |-> s]

ResponseBodies(kind) ==
  {NullBody, NoResultsBody} \cup { ResultsBody(s) : s \in SeqsUpTo(RecordsOf(kind), MaxLen) }

NoData == [tag |-> "none", hasResults |-> FALSE, results |-> <<>>]

-----------------------------------------------------------------------------
(* Pure functions of the component *)

\* getAPIRouteFromModelName: the route, and the error it sets (if any)
getAPIRouteFromModelName(name) ==
  IF name \in {"book", "bookinstance", "author", "genre", "language"}
  THEN [route |-> name \o "s", setError |-> FALSE, error |-> ErrNull]
  ELSE [route |-> "", setError |-> TRUE,
        error |-> ErrString("Given invalid modelName in API route selector:" \o name)]

\* shapeAuthorResults with the separator left out of the name
shapeAuthorResults_NoSeparator(authorArray) ==
  [i \in 1..Len(authorArray) |->
     [id |-> authorArray[i].id,
      name |-> authorArray[i].first_name \o authorArray[i].last_name]]

\* shapeAuthorResults: authorArray.map(...)
shapeAuthorResults(authorArray) ==
  [i \in 1..Len(authorArray) |->
     [id |-> authorArray[i].id,
      name |-> authorArray[i].first_name \o " " \o authorArray[i].last_name]]

DummyBooks ==
  << [id |-> 1, name |-> "DUMMY BOOK"], [id |-> 2, name |-> "SECOND DUMMY BOOK"] >>
DummyBookInstances ==
  << [id |-> 1, name |-> "DUMMY BOOK INSTANCE"], [id |-> 2, name |-> "SECOND DUMMY INSTANCE"] >>

\* parseModelListForFormOptions with book and bookinstance read from the
\* response like genre and language
parseModelListForFormOptions_BooksFromResults(name, responseData) ==
  LET ret(out) == [throws |-> FALSE, output |-> out, setError |-> FALSE, error |-> ErrNull]
      thrown == [throws |-> TRUE, output |-> Undefined, setError |-> FALSE, error |-> ErrNull]
  IN CASE name = "author" ->
            IF responseData.tag = "null" \/ ~responseData.hasResults
            THEN thrown
            ELSE ret(ArrayOf(shapeAuthorResults(responseData.results)))
       [] name \in {"book", "bookinstance", "genre", "language"} ->
            IF responseData.tag = "null" THEN thrown
            ELSE IF ~responseData.hasResults THEN ret(Undefined)
            ELSE ret(ArrayOf(responseData.results))
       [] OTHER ->
            [throws |-> FALSE, output |-> ArrayOf(<<>>), setError |-> TRUE,
             error |-> ErrString("Given invalid modelName in generic model select:" \o name)]

\* parseModelListForFormOptions: throws (TypeError), or returns output and
\* possibly calls setError
parseModelListForFormOptions(name, responseData) ==
  LET ret(out) == [throws |-> FALSE, output |-> out, setError |-> FALSE, error |-> ErrNull]
      thrown == [throws |-> TRUE, output |-> Undefined, setError |-> FALSE, error |-> ErrNull]
  IN CASE name = "book" -> ret(ArrayOf(DummyBooks))
       [] name = "bookinstance" -> ret(ArrayOf(DummyBookInstances))
       [] name = "author" ->
            IF responseData.tag = "null" \/ ~responseData.hasResults
            THEN thrown      \* null.results / undefined.map
            ELSE ret(ArrayOf(shapeAuthorResults(responseData.results)))
       [] name \in {"genre", "language"} ->
            IF responseData.tag = "null" THEN thrown
            ELSE IF ~responseData.hasResults THEN ret(Undefined)
            ELSE ret(ArrayOf(responseData.results))
       [] OTHER ->
            [throws |-> FALSE, output |-> ArrayOf(<<>>), setError |-> TRUE,
             error |-> ErrString("Given invalid modelName in generic model select:" \o name)]

\* the component state as one record
\* (set: whether a handler called one of the state setters)
State == [models |-> models, isLoading |-> isLoading, error |-> error, set |-> FALSE]

\* the catch handler without its setError(error)
catchHandler_NoSetError(st, err) == [st EXCEPT !.isLoading = FALSE, !.set = TRUE]

\* .catch(error => { setIsLoading(false); setError(error) })
catchHandler(st, err) == [st EXCEPT !.isLoading = FALSE, !.error = err, !.set = TRUE]

\* .then(data => { if (!ignore_request_output) {...} })
thenHandler(st, ignore, name, data) ==
  IF ignore THEN st
  ELSE LET parsed == parseModelListForFormOptions(name, data)
           st1 == [st EXCEPT !.error = ErrFalse]
       IN IF parsed.throws
          THEN catchHandler(st1, TypeError)
          ELSE [models |-> parsed.output,
                isLoading |-> FALSE,
                error |-> IF parsed.setError THEN parsed.error ELSE ErrFalse,
                set |-> TRUE]

\* only_value_text with the error tested against null instead of for truth
onlyValueText_ErrorNotNull(st, name) ==
  LET t1 == IF Len(st.models.items) = 0 THEN "No " \o name \o " s Found" ELSE ""
      t2 == IF st.error.tag # "null" THEN ErrorText(st.error) ELSE t1
  IN IF st.isLoading THEN "Loading..." ELSE t2

\* the fallback branch's only_value_text
onlyValueText(st, name) ==
  LET t1 == IF Len(st.models.items) = 0 THEN "No " \o name \o " s Found" ELSE ""
      t2 == IF Truthy(st.error) THEN ErrorText(st.error) ELSE t1
  IN IF st.isLoading THEN "Loading..." ELSE t2

\* what the component renders from its state
renderContent(st, name) ==
  IF st.models.tag = "undefined"
  THEN [kind |-> "throws", disabled |-> TRUE, text |-> "", options |-> <<>>]
  ELSE IF Len(st.models.items) > 0 /\ ~Truthy(st.error)
  THEN [kind |-> "options", disabled |-> Truthy(st.error), text |-> "",
        options |-> st.models.items]
  ELSE [kind |-> "fallback", disabled |-> TRUE, text |-> onlyValueText(st, name),
        options |-> <<>>]

Content == renderContent(State, modelName)

\* Number(s) for a string of decimal digits; +"" is 0
DigitValue(c) ==
  CASE c = "0" -> 0 [] c = "1" -> 1 [] c = "2" -> 2 [] c = "3" -> 3 [] c = "4" -> 4
    [] c = "5" -> 5 [] c = "6" -> 6 [] c = "7" -> 7 [] c = "8" -> 8 [] c = "9" -> 9

RECURSIVE ToNumber(_)
ToNumber(s) ==
  IF Len(s) = 0 THEN 0
  ELSE 10 * ToNumber(SubSeq(s, 1, Len(s) - 1)) + DigitValue(s[Len(s)])

\* handleSelectChange reading target.value in the multi-select branch too
handleSelectChange_FromValue(multiple, name, target) ==
  LET selected ==
        IF multiple
        THEN << ToNumber(target.value) >>
        ELSE target.value
  IN << [modelName |-> name, selectedValues |-> selected] >>

\* handleSelectChange: the sequence of calls it makes to parentOnChange
handleSelectChange(multiple, name, target) ==
  LET selected ==
        IF multiple
        THEN [i \in 1..Len(target.selectedOptions) |-> ToNumber(target.selectedOptions[i])]
        ELSE target.value
  IN << [modelName |-> name, selectedValues |-> selected] >>

-----------------------------------------------------------------------------
(* Requests and the mount effect *)

NewRequest(i, route) ==
  [inst |-> i, route |-> route, ignore |-> FALSE, aborted |-> FALSE,
   status |-> "inflight", data |-> NoData, err |-> ErrNull, staleSet |-> "none"]

\* fetchModelHandler: setIsLoading(true); setError(null); route; axios.get
fetchModelHandler(st, reqs, name, i) ==
  LET r == getAPIRouteFromModelName(name)
  IN [st |-> [st EXCEPT !.isLoading = TRUE,
                        !.error = IF r.setError THEN r.error ELSE ErrNull],
      reqs |-> Append(reqs, NewRequest(i, r.route))]

\* the cleanup without controller.abort()
effectCleanup_NoAbort(reqs) ==
  [reqs EXCEPT ![Len(reqs)].ignore = TRUE]

\* the effect's cleanup, for the request the effect issued (the last one):
\* ignore_request_output = true; controller.abort()
effectCleanup(reqs) ==
  LET k == Len(reqs)
  IN [reqs EXCEPT ![k].ignore = TRUE,
                  ![k].aborted = TRUE,
                  ![k].status = IF @ = "inflight" THEN "rejected" ELSE @,
                  ![k].err = IF reqs[k].status = "inflight" THEN CanceledError ELSE @]

\* a promise reaction is queued: it runs before any later network event
MicrotasksEmpty ==
  \A k \in 1..Len(requests) : requests[k].status \notin {"resolved", "rejected"}

\* setState of a request's closure reaches the instance that issued it
Live(k) == requests[k].inst = inst /\ phase # "unmounted"

Op(o, k) == [op |-> o, req |-> k]

-----------------------------------------------------------------------------
(* Initial state and actions *)

NoTarget == [selectedOptions |-> <<>>, value |-> <<>>]

\* the parent form has not been called yet
NoChange ==
  [events |-> 0, calls |-> 0, target |-> NoTarget, modelName |-> "",
   multi |-> <<>>, single |-> <<>>]

Init ==
  /\ modelName \in ModelNames
  /\ canSelectMultiple \in BOOLEAN
  /\ strictMode \in BOOLEAN
  /\ phase = "unmounted"
  /\ inst = 0
  /\ models = ArrayOf(<<>>)
  /\ isLoading = FALSE
  /\ error = ErrNull
  /\ requests = <<>>
  /\ effectRuns = 0
  /\ parent = NoChange
  /\ lastOp = Op("init", 0)

\* once the instance is gone no setter reaches a state any more (see Live):
\* what its requests carry is not recorded further
Forget(reqs) ==
  [k \in 1..Len(reqs) |-> [reqs[k] EXCEPT !.data = NoData, !.err = ErrNull]]

\* first render of a new instance: useState initial values
Mount ==
  /\ phase = "unmounted"
  /\ inst < MaxMounts
  /\ phase' = "rendered"
  /\ inst' = inst + 1
  /\ models' = ArrayOf(<<>>)
  /\ isLoading' = FALSE
  /\ error' = ErrNull
  /\ parent' = NoChange
  /\ lastOp' = Op("mount", 0)
  /\ UNCHANGED <<modelName, canSelectMultiple, strictMode, requests, effectRuns>>

\* the mount effect (deps []); under StrictMode: effect, cleanup, effect
RunEffect ==
  /\ phase = "rendered"
  /\ LET e1 == fetchModelHandler(State, requests, modelName, inst)
         e2 == fetchModelHandler(e1.st, effectCleanup(e1.reqs), modelName, inst)
         e == IF strictMode THEN e2 ELSE e1
     IN /\ models' = e.st.models
        /\ isLoading' = e.st.isLoading
        /\ error' = e.st.error
        /\ requests' = e.reqs
  /\ effectRuns' = effectRuns + (IF strictMode THEN 2 ELSE 1)
  /\ phase' = "active"
  /\ lastOp' = Op("effect", Len(requests'))
  /\ UNCHANGED <<modelName, canSelectMultiple, strictMode, inst, parent>>

\* unmount: the effect cleanup runs, the instance and its state are dropped
Unmount ==
  /\ phase = "active"
  /\ phase' = "unmounted"
  /\ requests' = Forget(effectCleanup(requests))
  /\ models' = ArrayOf(<<>>)
  /\ isLoading' = FALSE
  /\ error' = ErrNull
  /\ lastOp' = Op("unmount", Len(requests))
  /\ UNCHANGED <<modelName, canSelectMultiple, strictMode, inst, effectRuns, parent>>

\* the server answers 2xx with a body
Respond(k, body) ==
  /\ requests[k].status = "inflight"
  /\ MicrotasksEmpty
  /\ requests' = [requests EXCEPT ![k].status = "resolved", ![k].data = body]
  /\ lastOp' = Op("respond", k)
  /\ UNCHANGED <<modelName, canSelectMultiple, strictMode, phase, inst, models,
                 isLoading, error, effectRuns, parent>>

\* transport failure, or the 5000 ms timeout
Fail(k, e) ==
  /\ requests[k].status = "inflight"
  /\ MicrotasksEmpty
  /\ requests' = [requests EXCEPT ![k].status = "rejected", ![k].err = e]
  /\ lastOp' = Op("fail", k)
  /\ UNCHANGED <<modelName, canSelectMultiple, strictMode, phase, inst, models,
                 isLoading, error, effectRuns, parent>>

StaleMark(k) ==
  IF ~requests[k].ignore THEN "none"
  ELSE IF Live(k) THEN "liveInstance" ELSE "deadInstance"

\* the .then(data => ...) reaction of request k
Then(k) ==
  /\ requests[k].status = "resolved"
  /\ LET r == requests[k]
         st == thenHandler(State, r.ignore, modelName, r.data)
     IN /\ IF Live(k)
           THEN models' = st.models /\ isLoading' = st.isLoading /\ error' = st.error
           ELSE UNCHANGED <<models, isLoading, error>>
        /\ requests' = [requests EXCEPT ![k].status = "done",
                                        ![k].staleSet = IF st.set THEN StaleMark(k) ELSE "none"]
        /\ lastOp' = Op(IF r.ignore THEN "ignored" ELSE "then", k)
  /\ UNCHANGED <<modelName, canSelectMultiple, strictMode, phase, inst, effectRuns, parent>>

\* the .catch(error => ...) reaction of request k
Catch(k) ==
  /\ requests[k].status = "rejected"
  /\ LET r == requests[k]
         st == catchHandler(State, r.err)
     IN /\ IF Live(k)
           THEN models' = st.models /\ isLoading' = st.isLoading /\ error' = st.error
           ELSE UNCHANGED <<models, isLoading, error>>
        /\ requests' = [requests EXCEPT ![k].status = "done",
                                        ![k].staleSet = IF st.set THEN StaleMark(k) ELSE "none"]
        /\ lastOp' = Op("catch", k)
  /\ UNCHANGED <<modelName, canSelectMultiple, strictMode, phase, inst, effectRuns, parent>>

\* option values offered by the control, in option order
ControlOptions == << <<"1">>, <<"3">>, <<"1", "2">> >>

RECURSIVE Selection(_, _)
Selection(opts, picked) ==
  IF Len(opts) = 0 THEN <<>>
  ELSE (IF Len(opts) \in picked THEN Selection(SubSeq(opts, 1, Len(opts) - 1), picked) \o <<opts[Len(opts)]>>
        ELSE Selection(SubSeq(opts, 1, Len(opts) - 1), picked))

\* event.target of a change event: selectedOptions in option order, and
\* value = the first selected option's value ("" when none)
Targets(multiple) ==
  { [selectedOptions |-> Selection(ControlOptions, p),
     value |-> IF Selection(ControlOptions, p) = <<>> THEN <<>>
               ELSE Selection(ControlOptions, p)[1]] :
      p \in IF multiple THEN SUBSET (1..Len(ControlOptions))
            ELSE { {i} : i \in 1..Len(ControlOptions) } }

\* a change event on the enabled select
SelectChange(target) ==
  /\ phase = "active"
  /\ Content.kind = "options"
  /\ ~Content.disabled
  /\ parent.events < MaxChanges
  /\ LET calls == handleSelectChange(canSelectMultiple, modelName, target)
     IN parent' = [events |-> parent.events + 1,
                   calls |-> parent.calls + Len(calls),
                   target |-> target,
                   modelName |-> IF Len(calls) > 0 THEN calls[Len(calls)].modelName ELSE "",
                   multi |-> IF canSelectMultiple /\ Len(calls) > 0
                             THEN calls[Len(calls)].selectedValues ELSE <<>>,
                   single |-> IF ~canSelectMultiple /\ Len(calls) > 0
                              THEN calls[Len(calls)].selectedValues ELSE <<>>]
  /\ lastOp' = Op("change", 0)
  /\ UNCHANGED <<modelName, canSelectMultiple, strictMode, phase, inst, models,
                 isLoading, error, requests, effectRuns>>

Next ==
  \/ Mount
  \/ RunEffect
  \/ Unmount
  \/ \E k \in 1..Len(requests) : \E body \in ResponseBodies(modelName) : Respond(k, body)
  \/ \E k \in 1..Len(requests) : \E e \in {NetworkError, TimeoutError} : Fail(k, e)
  \/ \E k \in 1..Len(requests) : Then(k)
  \/ \E k \in 1..Len(requests) : Catch(k)
  \/ \E target \in Targets(canSelectMultiple) : SelectChange(target)

Spec == Init /\ [][Next]_vars

-----------------------------------------------------------------------------
(* Properties *)

\* the request issued by the latest run of the mount effect
Cur == Len(requests)

\* the current instance's effect has run and its request's reaction is over
Settled == phase = "active" /\ requests[Cur].status = "done"

BookKinds == {"book", "bookinstance"}
ListedKinds == {"author", "genre", "language"}
KnownKinds == BookKinds \cup ListedKinds

\* C1: the outcome (success or rejection) of a request whose effect has been
\* cleaned up is never applied: no state setter is called for it after the
\* cleanup.
C1_StaleOutcomeNeverApplied ==
  \A k \in 1..Len(requests) : requests[k].staleSet = "none"

\* C2: within one mount, once the instance has left loading (success or
\* error) models, isLoading and error do not change again until the next
\* mount.
C2_OneResultPerMount ==
  [][(phase = "active" /\ ~isLoading /\ phase' = "active")
       => UNCHANGED <<models, isLoading, error>>]_vars

C4_FailureEndsInErrorState ==
  (Settled /\ (requests[Cur].err \in {NetworkError, TimeoutError}
                \/ modelName \notin KnownKinds))
    => /\ Truthy(error)
       /\ ~isLoading
       /\ Content.kind = "fallback"
       /\ Content.disabled
       /\ Content.text = ErrorText(error)
       /\ Content.text \notin {"Loading...", "", "No " \o modelName \o " s Found"}
       /\ (requests[Cur].err = TimeoutError
             => Content.text = "AxiosError: timeout of 5000ms exceeded")

C4_Witness ==
  /\ Settled /\ requests[Cur].err = TimeoutError /\ modelName = "genre"
  /\ Content.text = "AxiosError: timeout of 5000ms exceeded"

\* C5: requests are issued only by the mount effect, one per run; every
\* request but the latest has been aborted by its cleanup, at most one
\* un-aborted request is in flight, and a settled request is not retried.
C5_OneRequestPerEffectRun ==
  /\ Len(requests) = effectRuns
  /\ effectRuns = (IF strictMode THEN 2 ELSE 1)
                   * (IF phase = "rendered" THEN inst - 1 ELSE inst)
  /\ \A k \in 1..Len(requests) : k < Cur => requests[k].aborted
  /\ \A k \in 1..Len(requests) : requests[k].aborted => requests[k].status # "inflight"
  /\ Cardinality({k \in 1..Len(requests) : requests[k].status = "inflight"}) <= 1

C5_Witness ==
  /\ strictMode /\ inst = 2 /\ phase = "active" /\ Len(requests) = 4
  /\ requests[4].status = "inflight" /\ requests[2].status = "done"

\* the integer a control value stands for, listed value by value
ExpectedNumber(v) ==
  CASE v = <<"1">> -> 1 [] v = <<"3">> -> 3 [] v = <<"1", "2">> -> 12

\* C6: every change event calls the parent onChange exactly once with
\* {modelName, selectedValues}; multi-select: the selected options' values
\* as integers in option order; single-select: the raw string value.
C6_ChangePayload ==
  /\ parent.calls = parent.events
  /\ parent.events > 0 =>
       /\ parent.modelName = modelName
       /\ IF canSelectMultiple
          THEN /\ Len(parent.multi) = Len(parent.target.selectedOptions)
               /\ \A i \in 1..Len(parent.multi) :
                    parent.multi[i] = ExpectedNumber(parent.target.selectedOptions[i])
          ELSE parent.single = parent.target.value

C6_Witness ==
  /\ canSelectMultiple /\ parent.events = 1
  /\ parent.target.selectedOptions = << <<"1">>, <<"3">> >>
  /\ parent.multi = <<1, 3>>

\* C7: for author, genre and language a response with a results array of N
\* records stores exactly N options, in response order, each with its
\* record's id; author names are first_name + " " + last_name, genre and
\* language names are the record's name.
C7_Normalization ==
  (modelName \in ListedKinds /\ phase = "active" /\ lastOp.op = "then"
     /\ requests[lastOp.req].data.hasResults)
    => LET results == requests[lastOp.req].data.results
       IN /\ models.tag = "array"
          /\ Len(models.items) = Len(results)
          /\ \A i \in 1..Len(results) :
               /\ models.items[i].id = results[i].id
               /\ models.items[i].name =
                    (IF modelName = "author"
                     THEN (IF results[i].id = 1 THEN "Jane Austen" ELSE "Mary Shelley")
                     ELSE results[i].name)

C7_Witness ==
  /\ modelName = "author" /\ phase = "active" /\ lastOp.op = "then"
  /\ requests[lastOp.req].data.results =
       << [id |-> 2, first_name |-> "Mary", last_name |-> "Shelley"],
          [id |-> 1, first_name |-> "Jane", last_name |-> "Austen"] >>
  /\ models = ArrayOf(<< [id |-> 2, name |-> "Mary Shelley"],
                         [id |-> 1, name |-> "Jane Austen"] >>)

\* a zero-record response has been applied to the current instance
ZeroRecordsApplied ==
  /\ Settled
  /\ modelName \in ListedKinds
  /\ requests[Cur].data.hasResults
  /\ Len(requests[Cur].data.results) = 0

\* C8 as claimed: after a zero-record response is applied the instance is
\* neither loading nor in error and shows "No {kind}s Found"; an empty-state
\* message is shown only then, and the control is never shown without a
\* message.
C8_EmptyStateOnlyAfterZeroRecords ==
  /\ ZeroRecordsApplied
       => /\ ~isLoading /\ ~Truthy(error)
          /\ Content.kind = "fallback"
          /\ Content.text = "No " \o modelName \o "s Found"
  /\ (phase # "unmounted" /\ Content.kind = "fallback"
        /\ Content.text \in {"No " \o modelName \o "s Found",
                              "No " \o modelName \o " s Found"})
       => ZeroRecordsApplied
  /\ (phase # "unmounted" /\ Content.kind = "fallback") => Content.text # ""

\* C8 amended: after a zero-record response is applied the instance is
\* neither loading nor in error and shows "No {modelName} s Found" in the
\* disabled control; that text is shown only then and in the first render of
\* a mount, before the effect has run; the control is never shown without a
\* message.
C8_EmptyStateText ==
  /\ ZeroRecordsApplied
       => /\ ~isLoading /\ ~Truthy(error)
          /\ Content.kind = "fallback" /\ Content.disabled
          /\ Content.text = "No " \o modelName \o " s Found"
  /\ (phase # "unmounted" /\ Content.kind = "fallback"
        /\ Content.text = "No " \o modelName \o " s Found")
       => (phase = "rendered" \/ ZeroRecordsApplied)
  /\ (phase # "unmounted" /\ Content.kind = "fallback") => Content.text # ""

C8_Witness ==
  /\ ZeroRecordsApplied /\ modelName = "genre" /\ strictMode
  /\ Content.text = "No genre s Found"

\* C9: once the request of the current mount has settled and its reaction
\* has run, isLoading is false and the instance is in success (models an
\* array, no error) or in error (error set).
C9_SettlesInSuccessOrError ==
  Settled =>
    /\ ~isLoading
    /\ \/ (models.tag = "array" /\ ~Truthy(error))
       \/ Truthy(error)

\* C10: models is always an array of {id, name} records, and a response
\* body without a results array leads to the error state.
C10_ModelsIsAnArray ==
  /\ models.tag = "array"
  /\ (phase = "active" /\ lastOp.op = "then" /\ ~requests[lastOp.req].data.hasResults)
       => Truthy(error)

TypeOK ==
  /\ phase \in {"unmounted", "rendered", "active"}
  /\ inst \in 0..MaxMounts
  /\ isLoading \in BOOLEAN
  /\ models.tag \in {"array", "undefined"}

====
